---------------------------- MODULE Spec2Model ----------------------------
(***************************************************************************)
(* Layout solver and toroidal camera of the gallery canvas                 *)
(* (src/app/page.tsx).                                                     *)
(*                                                                         *)
(* Numbers.  The source computes in IEEE doubles.  Here every quantity is  *)
(* an integer: world pixels for the layout, and an arbitrary fixed unit    *)
(* for the wrap functions (they are homogeneous, so integers stand for     *)
(* any rational grid).  A 32-bit word of the generator is a pair           *)
(* <<hi, lo>> of 16-bit halves, because the model checker's integers are   *)
(* 32-bit signed.  Math.round(v) is floor(v + 1/2), computed exactly.      *)
(***************************************************************************)
EXTENDS Integers, Sequences, FiniteSets, TLC

(***************************************************************************)
(* 32-bit words as <<hi, lo>>, 0 <= hi, lo < 65536.                        *)
(***************************************************************************)
Half == 65536

\* the domain of the word operations (their halves stay below 2^16)
Words == Nat \X Nat

Word(hi, lo) == <<hi, lo>>

\* bitwise xor / or of two n-bit values, by bits
RECURSIVE BitXor(_, _, _)
BitXor(a, b, n) ==
    IF n = 0 THEN 0
    ELSE (((a % 2) + (b % 2)) % 2) + 2 * BitXor(a \div 2, b \div 2, n - 1)

RECURSIVE BitOr(_, _, _)
BitOr(a, b, n) ==
    IF n = 0 THEN 0
    ELSE (IF (a % 2) + (b % 2) > 0 THEN 1 ELSE 0) + 2 * BitOr(a \div 2, b \div 2, n - 1)

\* a ^ b on 8-bit values: entry a * 256 + b + 1 of a sequence tabulated once
XorByte == [k \in 1..65536 |-> BitXor((k - 1) \div 256, (k - 1) % 256, 8)] \o <<>>

Xor16 ==
    [a \in Nat, b \in Nat |->
        XorByte[(a \div 256) * 256 + (b \div 256) + 1] * 256
            + XorByte[(a % 256) * 256 + (b % 256) + 1]]

\* a ^ b on 32-bit words
Xor32 == [a \in Words, b \in Words |-> <<Xor16[a[1], b[1]], Xor16[a[2], b[2]]>>]

\* (a + b) mod 2^32
Add32 ==
    [a \in Words, b \in Words |->
        <<(a[1] + b[1] + ((a[2] + b[2]) \div Half)) % Half, (a[2] + b[2]) % Half>>]

\* (a * b) mod 2^16 for 16-bit a, b without leaving 31 bits
MulLow16(a, b) == ((((a \div 256) * b) % 256) * 256 + (a % 256) * b) % Half

\* Math.imul(a, b): the low 32 bits of the product
Imul ==
    [a \in Words, b \in Words |->
        LET p0  == (a[2] % 256) * b[2]
            p1  == (a[2] \div 256) * b[2]
            mid == p0 + (p1 % 256) * 256
            car == (p1 \div 256) + (mid \div Half)
        IN  <<(car + MulLow16(a[1], b[2]) + MulLow16(a[2], b[1])) % Half, mid % Half>>]

\* a >>> n for 0 < n < 16
Shr32 ==
    [a \in Words, n \in Nat |->
        <<a[1] \div (2 ^ n), ((a[1] % (2 ^ n)) * (Half \div (2 ^ n))) + (a[2] \div (2 ^ n))>>]

\* c | a for a small constant c < 64
OrSmall == [c \in Nat, a \in Words |-> <<a[1], ((a[2] \div 64) * 64) + BitOr(c, a[2] % 64, 6)>>]

(***************************************************************************)
(* createSeededRng: Mulberry32 (lines 85-94).  RngStep is the new value of *)
(* t after one call, RngOut the 32-bit numerator u of the value u / 2^32   *)
(* the call returns; RngMix1 to RngMix3 are the statements of lines 90-92. *)
(***************************************************************************)
RngIncrement == Word(27947, 31221)   \* 0x6d2b79f5

RngStep == [t \in Words |-> Add32[t, RngIncrement]]

RngMix1 == [t \in Words |-> Imul[Xor32[t, Shr32[t, 15]], OrSmall[1, t]]]

RngMix2 == [x \in Words |-> Xor32[x, Add32[x, Imul[Xor32[x, Shr32[x, 7]], OrSmall[61, x]]]]]

RngMix3 == [x \in Words |-> Xor32[x, Shr32[x, 14]]]

RngOut == [t \in Words |-> RngMix3[RngMix2[RngMix1[t]]]]

\* t after n more calls of the generator: each call adds RngIncrement
RngJump == [t \in Words, n \in Nat |-> Add32[t, Imul[RngIncrement, Word(n \div Half, n % Half)]]]

(***************************************************************************)
(* Arithmetic on generator values.  A value rng() is u / 2^32 for the word *)
(* u; products with it are taken exactly and rounded as Math.round and     *)
(* Math.floor do.                                                          *)
(***************************************************************************)
MathMin(a, b) == IF a <= b THEN a ELSE b
MathMax(a, b) == IF a >= b THEN a ELSE b

\* the value as it is
unclamped(val, min, max) == val

clamp(val, min, max) == MathMin(max, MathMax(min, val))

\* Math.round(a / b) for b > 0
RoundDiv(a, b) == (2 * a + b) \div (2 * b)

\* rng() < pct / 100
RngBelow == [u \in Words, pct \in Nat |-> (u[1] * 100 + ((u[2] * 100) \div Half)) < pct * Half]

\* Math.round(rng() * d)
RngRound == [u \in Words, d \in Int |-> (u[1] * d + ((u[2] * d) \div Half) + 32768) \div Half]

\* Math.floor(rng() * d)
RngFloor == [u \in Words, d \in Int |-> (u[1] * d + ((u[2] * d) \div Half)) \div Half]

(***************************************************************************)
(* Math.cos and Math.sin of rng() * 2 * PI, in units of 1 / CosScale: a    *)
(* table of a quarter turn in 64ths of a turn, interpolated linearly on    *)
(* the upper half u[1] of the generator word (error below 2 px at maxR).   *)
(***************************************************************************)
CosScale == 16384

QuarterCos ==
    <<16384, 16305, 16069, 15679, 15137, 14449, 13623, 12665, 11585,
      10394, 9102, 7723, 6270, 4756, 3196, 1606, 0>>

CosTab ==
    [a \in 0..64 |->
        IF (a % 64) <= 16 THEN QuarterCos[(a % 64) + 1]
        ELSE IF (a % 64) <= 32 THEN -QuarterCos[32 - (a % 64) + 1]
        ELSE IF (a % 64) <= 48 THEN -QuarterCos[(a % 64) - 32 + 1]
        ELSE QuarterCos[64 - (a % 64) + 1]]

CosOf ==
    [hi \in Nat |->
        (CosTab[hi \div 1024] * (1024 - (hi % 1024)) + CosTab[(hi \div 1024) + 1] * (hi % 1024) + 512)
            \div 1024]

SinOf == [hi \in Nat |-> CosOf[(hi + Half - 16384) % Half]]

(***************************************************************************)
(* Constants of the page and of the items computation.                     *)
(***************************************************************************)
DEFAULT_WORLD_SIZE == 8000
CAPTION_GAP == 10
CAPTION_HEIGHT == 22
RngSeed == 1337
margin == 320
maxCoverPercent == 10        \* maxCoverRatio = 0.1
maxAttempts == 6000
minR == 380
maxR == 1600
RingPercent == 82            \* rng() < 0.82
shrinkSteps == <<100, 88, 78>>   \* [1, 0.88, 0.78], in percent
NumShades == 5
FallbackW == 180
FallbackH == 140
MinTileW == 120
MinTileH == 90
ExclusionW == 1300
ExclusionH == 440

Rect(x, y, w, h) == [x |-> x, y |-> y, w |-> w, h |-> h]

overlapArea(a, b) ==
    LET x1 == MathMax(a.x, b.x)
        y1 == MathMax(a.y, b.y)
        x2 == MathMin(a.x + a.w, b.x + b.w)
        y2 == MathMin(a.y + a.h, b.y + b.h)
        iw == MathMax(0, x2 - x1)
        ih == MathMax(0, y2 - y1)
    IN  iw * ih

\* p.width && p.height ? p.width / p.height : 4 / 3, as <<numerator, denominator>>
\* (a missing dimension is null in the source and 0 here: both are falsy)
AspectOf(p) == IF p.width # 0 /\ p.height # 0 THEN <<p.width, p.height>> ELSE <<4, 3>>

\* the size tier drawn by r (lines 335-341)
TierLimits ==
    [r \in Words |->
        IF RngBelow[r, 8] THEN [minW |-> 520, maxW |-> 940, minH |-> 380, maxH |-> 720]
        ELSE IF RngBelow[r, 35] THEN [minW |-> 300, maxW |-> 620, minH |-> 220, maxH |-> 480]
        ELSE [minW |-> 170, maxW |-> 410, minH |-> 130, maxH |-> 330]]

\* baseW, baseH of a photo of aspect ar, from the tier and the long edge drawn
\* (lines 343-370)
BaseSize ==
    [ar \in Nat \X Nat, limits \in [minW : Nat, maxW : Nat, minH : Nat, maxH : Nat], u \in Words |->
        LET landscape == ar[1] >= ar[2]
            lo == IF landscape THEN limits.minW ELSE limits.minH
            hi == IF landscape THEN limits.maxW ELSE limits.maxH
            longEdge == lo + RngRound[u, hi - lo]
        IN  IF landscape
            THEN LET baseW == clamp(longEdge, limits.minW, limits.maxW)
                     baseH == RoundDiv(baseW * ar[2], ar[1])
                 IN  IF baseH > limits.maxH
                     THEN [w |-> RoundDiv(limits.maxH * ar[1], ar[2]), h |-> limits.maxH]
                     ELSE IF baseH < limits.minH
                     THEN [w |-> RoundDiv(limits.minH * ar[1], ar[2]), h |-> limits.minH]
                     ELSE [w |-> baseW, h |-> baseH]
            ELSE LET baseH == clamp(longEdge, limits.minH, limits.maxH)
                     baseW == RoundDiv(baseH * ar[1], ar[2])
                 IN  IF baseW > limits.maxW
                     THEN [w |-> limits.maxW, h |-> RoundDiv(limits.maxW * ar[2], ar[1])]
                     ELSE IF baseW < limits.minW
                     THEN [w |-> limits.minW, h |-> RoundDiv(limits.minW * ar[2], ar[1])]
                     ELSE [w |-> baseW, h |-> baseH]]

(***************************************************************************)
(* State of the items computation (the useMemo callback, lines 297-543),   *)
(* its inputs, and its result.  Indices are 1-based here and 0-based in    *)
(* the source; 0 stands for null in partner and overlapIndex.              *)
(***************************************************************************)
VARIABLES
    photos,       \* the inventory fetched from /api/photos
    filterDir,    \* prop filterDir ("" when absent)
    WORLD_SIZE,   \* prop worldSize
    pc,           \* position in the computation
    rngT,         \* t of the generator created at line 299
    i,            \* loop index over usablePhotos (items already handled)
    list,         \* placed items
    partner,      \* partner[k]: the item overlapping item k, or 0
    cur,          \* baseW, baseH, rotation, shade of the item in hand
    step,         \* index into shrinkSteps; 4 is the final fallback
    placement,    \* result of the last findPlacement
    used,         \* attempts consumed by each findPlacement call for the item in hand
    dropped,      \* indices into usablePhotos of the items skipped at line 518
    run,          \* number of completed computations
    prevList      \* the list returned by the previous computation

solverVars ==
    <<photos, filterDir, WORLD_SIZE, pc, rngT, i, list, partner, cur, step,
      placement, used, dropped, run, prevList>>

\* one generator kept for every computation instead of a new one for each
sharedRng(seed) == IF run > 0 THEN rngT ELSE Word(seed \div Half, seed % Half)

\* createSeededRng(seed): t = seed >>> 0
createSeededRng(seed) == Word(seed \div Half, seed % Half)

\* usablePhotos (line 298)
usablePhotos ==
    IF filterDir # "" THEN SelectSeq(photos, LAMBDA p : p.dir = filterDir) ELSE photos

\* centerExclusion (lines 383-388) in half pixels: WORLD_SIZE / 2 need not be whole
centerExclusion ==
    Rect(WORLD_SIZE - ExclusionW, WORLD_SIZE - ExclusionH, 2 * ExclusionW, 2 * ExclusionH)

Twice(r) == Rect(2 * r.x, 2 * r.y, 2 * r.w, 2 * r.h)

\* the tile alone, without its gap and caption, tested against the centre exclusion
centerOverlapTile(x, y, w, totalH) ==
    overlapArea(Twice(Rect(x, y, w, totalH - CAPTION_GAP - CAPTION_HEIGHT)),
                centerExclusion) > 0

\* lines 428-429: the footprint (tile, gap and caption) meets the centre exclusion
centerOverlap(x, y, w, totalH) ==
    overlapArea(Twice(Rect(x, y, w, totalH)), centerExclusion) > 0

captionOf(b) == Rect(b.x, b.y + b.h + CAPTION_GAP, b.w, CAPTION_HEIGHT)

\* the caption checks without the first one (candidate tile on the other's caption)
coversCaptionOfCandidate(candidateBlock, otherBlock) ==
    \/ overlapArea(captionOf(candidateBlock), otherBlock) > 0
    \/ overlapArea(captionOf(candidateBlock), captionOf(otherBlock)) > 0

\* lines 452-464: a caption would be covered
coversCaption(candidateBlock, otherBlock) ==
    \/ overlapArea(candidateBlock, captionOf(otherBlock)) > 0
    \/ overlapArea(captionOf(candidateBlock), otherBlock) > 0
    \/ overlapArea(captionOf(candidateBlock), captionOf(otherBlock)) > 0

\* lines 481-487: inter / area > maxCoverRatio or inter / otherArea > maxCoverRatio
coverTooLarge(inter, area, otherArea) ==
    \/ inter * 100 > maxCoverPercent * area
    \/ inter * 100 > maxCoverPercent * otherArea

\* the loop over the placed items (lines 442-490) from item j on
RECURSIVE scanOthers(_, _, _)
scanOthers(c, j, overlapIndex) ==
    IF j > Len(list) THEN [found |-> TRUE, overlapIndex |-> overlapIndex]
    ELSE
      LET other == list[j]
          otherBlock == Rect(other.x, other.y, other.w, other.h)
          inter == overlapArea(c, otherBlock)
      IN  IF coversCaption(c, otherBlock) THEN [found |-> FALSE, overlapIndex |-> 0]
          ELSE IF inter <= 0 THEN scanOthers(c, j + 1, overlapIndex)
          ELSE IF partner[j] # 0 THEN [found |-> FALSE, overlapIndex |-> 0]
          ELSE IF overlapIndex # 0 /\ overlapIndex # j THEN [found |-> FALSE, overlapIndex |-> 0]
          ELSE IF coverTooLarge(inter, c.w * c.h, other.w * other.h)
               THEN [found |-> FALSE, overlapIndex |-> 0]
          ELSE scanOthers(c, j + 1, j)

\* the loop started at the second placed item
checkFromSecond(c) == scanOthers(c, 2, 0)

\* the loop run over the newest placed item only
checkNewestOnly(c) == scanOthers(c, MathMax(1, Len(list)), 0)

\* the loop of lines 442-490 over all the placed items
checkOthers(c) == scanOthers(c, 1, 0)

\* sampleCandidate (lines 397-422) from the three values it draws
sampleCandidate ==
    [u1 \in Words, u2 \in Words, u3 \in Words, w \in Nat, totalH \in Nat |->
        IF ~RngBelow[u1, RingPercent]
        THEN [x |-> margin + RngRound[u2, WORLD_SIZE - margin * 2 - w],
              y |-> margin + RngRound[u3, WORLD_SIZE - margin * 2 - totalH]]
        ELSE
          LET h15  == u3[1] \div 2
              \* r = Math.pow(rng(), 2) * (maxR - minR) + minR, in quarter pixels
              rad4 == 4 * minR + (((maxR - minR) * ((h15 * h15) \div 1024)) \div 262144)
              rawX == ((WORLD_SIZE - w + 1) * 2 * CosScale + CosOf[u2[1]] * rad4)
                          \div (4 * CosScale)
              rawY == ((WORLD_SIZE - totalH + 1) * 2 * CosScale + SinOf[u2[1]] * rad4)
                          \div (4 * CosScale)
          IN  [x |-> clamp(rawX, margin, WORLD_SIZE - margin - w),
               y |-> clamp(rawY, margin, WORLD_SIZE - margin - totalH)]]

NoPlacement(w, h, n, t) ==
    [found |-> FALSE, x |-> 0, y |-> 0, w |-> w, h |-> h, overlapIndex |-> 0,
     attempts |-> n, t |-> t]

\* lines 425-426: the candidate block of an attempt that starts with the
\* generator at t
candidateAt ==
    [t \in Words, w \in Nat, h \in Nat |->
        sampleCandidate[RngOut[RngStep[t]], RngOut[RngStep[RngStep[t]]],
                        RngOut[RngStep[RngStep[RngStep[t]]]],
                        w, h + CAPTION_GAP + CAPTION_HEIGHT]
            @@ [w |-> w, h |-> h]]

\* lines 428-492: the checks of a candidate block
checkCandidate ==
    [c \in [x : Int, y : Int, w : Nat, h : Nat] |->
        IF centerOverlap(c.x, c.y, c.w, c.h + CAPTION_GAP + CAPTION_HEIGHT)
        THEN [found |-> FALSE, overlapIndex |-> 0, x |-> c.x, y |-> c.y]
        ELSE checkOthers(c) @@ [x |-> c.x, y |-> c.y]]

\* one attempt of findPlacement (the loop body, lines 425-492), the generator
\* being at t when the attempt starts
attemptOnce == [w \in Nat, h \in Nat, t \in Words |-> checkCandidate[candidateAt[t, w, h]]]

\* every attempt draws three values (useRing, then x and y, or ang and r), so
\* attempt number k (0-based) starts with the generator at t + 3 * k calls
DrawsPerAttempt == 3

\* findPlacement (lines 390-495): the first attempt below `attempts` whose
\* candidate passes every check, or null
findPlacement(w, h, attempts) ==
    LET passes(k) == attemptOnce[w, h, RngJump[rngT, DrawsPerAttempt * k]].found
        placed ==
            [k \in 0..(attempts - 1) |->
                attemptOnce[w, h, RngJump[rngT, DrawsPerAttempt * k]]
                    @@ [w |-> w, h |-> h, attempts |-> k + 1,
                        t |-> RngJump[rngT, DrawsPerAttempt * (k + 1)]]]
    IN  IF \E k \in 0..(attempts - 1) : passes(k)
        THEN placed[CHOOSE k \in 0..(attempts - 1) :
                        passes(k) /\ \A j \in 0..(k - 1) : ~passes(j)]
        ELSE NoPlacement(w, h, attempts, RngJump[rngT, DrawsPerAttempt * attempts])

(***************************************************************************)
(* wrapTranslateWithPeriod (lines 75-79).  JsRem is the % of the source:    *)
(* the remainder takes the sign of the dividend.                           *)
(***************************************************************************)
JsRem(a, b) == IF a >= 0 THEN a % b ELSE -((-a) % b)

\* a version that reduces once and does not renormalise the sign
wrapWithoutRenormalising(v, period) == JsRem(v, period) - period

wrapTranslateWithPeriod(v, period) ==
    LET m == JsRem(JsRem(v, period) + period, period)
    IN  m - period

VARIABLES
    wrapV,        \* the value handed to wrapTranslateWithPeriod
    wrapPeriod,   \* the period (the tile size on screen)
    wrapped       \* the results of wrapping wrapV, then each result again

wrapVars == <<wrapV, wrapPeriod, wrapped>>

(***************************************************************************)
(* sampleCandidate (lines 397-422) on its own: the tile tried and the      *)
(* positions the sampler has produced for it.                              *)
(***************************************************************************)
VARIABLES
    tileW,        \* w of the findPlacement call
    tileH,        \* h of the findPlacement call
    candidates    \* the positions sampled so far

sampleVars == <<tileW, tileH, candidates>>

\* no tile has been tried
SampleIdle ==
    /\ tileW = 0
    /\ tileH = 0
    /\ candidates = <<>>

(***************************************************************************)
(* wrapDeltaOnWorld and wrapDeltaWithPeriod (lines 96-104).  The offsets   *)
(* are counted in a unit in which the period is even, so that period / 2   *)
(* is a whole number of units.                                             *)
(***************************************************************************)
wrapDeltaOnWorld(delta, worldSize) ==
    JsRem(delta + worldSize \div 2, worldSize) - worldSize \div 2

\* half of the way, not reduced
halfWay(delta, period) == delta \div 2

wrapDeltaWithPeriod(delta, period) ==
    JsRem(delta + period \div 2, period) - period \div 2

VARIABLES
    desiredV,       \* the offset that centres the world, before it is wrapped
    recenterDelta   \* the deltas scrollToCenter computed, <<>> before it ran

deltaVars == <<desiredV, recenterDelta>>

(***************************************************************************)
(* The camera and its motion controller (lines 209-247, 588-798, 850-924). *)
(* Offsets and distances are counted in hundredths of a pixel, velocities  *)
(* in thousandths of a pixel per millisecond, times in tenths of a         *)
(* millisecond, the scale in hundredths.  Math.exp and Math.hypot are      *)
(* computed to that resolution.  The clocks the code reads through         *)
(* performance.now() are kept as the time elapsed since the instant the    *)
(* code compares them with.                                                *)
(***************************************************************************)
PxUnits == 100
MsUnits == 10
VelUnits == 1000
ExpUnits == 10000

RECURSIVE SqrtBetween(_, _, _)
SqrtBetween(sq, lo, hi) ==
    IF lo >= hi THEN lo
    ELSE LET mid == (lo + hi + 1) \div 2
         IN  IF mid * mid <= sq THEN SqrtBetween(sq, mid, hi)
             ELSE SqrtBetween(sq, lo, mid - 1)

\* Math.hypot(a, b), rounded to the nearest unit
Hypot ==
    [a \in Int, b \in Int |->
        [r \in Nat |-> IF a * a + b * b - r * r > r THEN r + 1 ELSE r]
            [SqrtBetween(a * a + b * b, 0, 46340)]]

\* Math.exp(-x / 100000), in units of 1 / ExpUnits: the series of exp up to
\* the fifth power for x / 100000 <= 1 / 2, the square of exp(-x / 200000)
\* above
ExpNeg[x \in Nat] ==
    IF x > 50000
    THEN [y \in Nat |-> RoundDiv(y * y, ExpUnits)][ExpNeg[x \div 2]]
    ELSE LET e5 == ExpUnits - RoundDiv(x * ExpUnits, 500000)
             e4 == ExpUnits - RoundDiv(x * e5, 400000)
             e3 == ExpUnits - RoundDiv(x * e4, 300000)
             e2 == ExpUnits - RoundDiv(x * e3, 200000)
         IN  ExpUnits - RoundDiv(x * e2, 100000)

\* the controller's constants, in the units above
dtMin == 10                \* 1 ms
dtMax == 400               \* 40 ms
pointerDtMin == 40         \* 4 ms
frictionRate == 105        \* 0.0105 per ms
stopSpeed == 20            \* 0.02 px/ms
followDragging == 1200     \* 0.12 per ms
followInertia == 900       \* 0.09 per ms
followIdle == 1400         \* 0.14 per ms
duration == 6500           \* 650 ms
maxSpeed == 2200           \* 2.2 px/ms
minInertiaSpeed == 40      \* 0.04 px/ms
minInertiaDistance == 1000 \* 10 px
suppressDistance == 600    \* 6 px
suppressWindow == 1400     \* 140 ms
showDistance == 240        \* px
farAway == 10000000        \* px
publishStep == 50          \* 0.5 px
bufferPx == 500            \* px
scaleMin == 72             \* 0.72
scaleMax == 100            \* 1
scaleBase == 900           \* px

NoAnim == <<>>
NoTime == -1
NoPointer == 0
Zero == [x |-> 0, y |-> 0]

VARIABLES
    windowSize,        \* window.innerWidth and window.innerHeight, in pixels
    mounted,           \* the layout effect of lines 588-654 has run
    viewportSize,      \* line 224
    worldScale,        \* lines 209-210
    worldTransform,    \* lines 625, 748, 935: the translation of the world on screen
    renderOffset,      \* line 225: the camera offset published for culling
    photosStatus,      \* line 222
    showCenterButton,  \* lines 219-220
    selected,          \* line 218: the index of the opened item, 0 for none
    isDragging,        \* line 217
    hasCapture,        \* lines 864, 918: the active pointer is captured
    centerAnim,        \* lines 226-233, startTime kept as the time elapsed
    targetOffset,      \* line 236
    currentOffset,     \* line 237
    activePointerId,   \* line 240
    lastPointerPos,    \* line 241
    sincePointer,      \* line 242: the time elapsed since lastPointerTime
    movedDistance,     \* line 243
    suppressLeft,      \* line 244: the time left until suppressClickUntil
    velocity,          \* line 245
    isInertia,         \* line 246
    sinceRaf,          \* line 247: the time elapsed since lastRafTime
    inputsLeft,        \* the inputs the environment may still send
    framesSinceInput   \* the ticks since the last input, counted to MaxQuiet + 1

cameraVars == <<windowSize, mounted, viewportSize, worldScale, worldTransform, renderOffset,
                photosStatus,
                showCenterButton, selected>>

motionVars == <<isDragging, hasCapture, centerAnim, targetOffset, currentOffset, activePointerId,
                lastPointerPos, sincePointer, movedDistance, suppressLeft, velocity,
                isInertia, sinceRaf>>

ctlVars == <<cameraVars, motionVars, inputsLeft, framesSinceInput>>

viewVars == <<deltaVars, ctlVars>>

MaxPointerGap == 2000

DeltaIdle ==
    /\ desiredV = 0
    /\ recenterDelta = <<>>

\* the page as it is constructed (lines 209-247), before its layout effect
Constructed ==
    /\ mounted = FALSE
    /\ viewportSize = [w |-> 0, h |-> 0]
    /\ worldScale = scaleMax
    /\ worldTransform = Zero
    /\ renderOffset = Zero
    /\ showCenterButton = FALSE
    /\ selected = 0
    /\ isDragging = FALSE
    /\ hasCapture = FALSE
    /\ centerAnim = NoAnim
    /\ targetOffset = Zero
    /\ currentOffset = Zero
    /\ activePointerId = NoPointer
    /\ lastPointerPos = Zero
    /\ sincePointer = MaxPointerGap
    /\ movedDistance = 0
    /\ suppressLeft = 0
    /\ velocity = Zero
    /\ isInertia = FALSE
    /\ sinceRaf = NoTime
    /\ framesSinceInput = 0

CtlIdle ==
    /\ windowSize = [w |-> 1280, h |-> 800]
    /\ photosStatus = "loaded"
    /\ inputsLeft = 0
    /\ Constructed

ViewIdle == DeltaIdle /\ CtlIdle

(***************************************************************************)
(* Inputs.  An inventory is what /api/photos returns: photos ordered by    *)
(* directory, then file name, numbered within their directory.             *)
(***************************************************************************)
MaxPhotos == 6
ArtPhotos == 4
MaxRuns == 2
MaxWrapV == 20
MaxWrapPeriod == 6
MaxWraps == 3

FileNames ==
    <<"01.jpg", "02.jpg", "03.jpg", "04.jpg", "05.jpg", "06.jpg", "07.jpg",
      "08.jpg", "09.jpg", "10.jpg", "11.jpg", "12.jpg">>

\* <<width, height>> read from the file headers; <<0, 0>>: no size could be read
DimsCycle == << <<1600, 1200>>, <<1200, 1600>>, <<0, 0>> >>

Panorama == <<3000, 1000>>

Photo(dir, order, dims) ==
    [src |-> <<dir, FileNames[order]>>, dir |-> dir, order |-> order,
     file |-> FileNames[order], width |-> dims[1], height |-> dims[2]]

Inventory(n, ph) ==
    [k \in 1..n |->
        Photo(IF k <= ArtPhotos THEN "Art" ELSE "Travel",
              IF k <= ArtPhotos THEN k ELSE k - ArtPhotos,
              DimsCycle[((k - 1 + ph) % Len(DimsCycle)) + 1])]

Inventories == {Inventory(n, ph) : n \in 0..MaxPhotos, ph \in 0..(Len(DimsCycle) - 1)}

\* the main page (8000, no filter) and the category pages (2600, one directory)
WorldSizes == {DEFAULT_WORLD_SIZE, 2600}
Filters == {"", "Art", "Travel"}

\* Worlds in which the margins and the exclusion zone leave two bands of height
\* WORLD_SIZE / 2 - 540 only.  At 1424 the bands are 172 high: the fallback tile
\* fits, the shrunken tile of the first photo does not.  At 1400 they are 160
\* high: the fallback tile does not fit either, a shrunken panorama does.
FallbackInput == [photos |-> Inventory(1, 0), worldSize |-> 1424]
DropInput == [photos |-> [k \in 1..4 |-> Photo("Art", k, Panorama)], worldSize |-> 1400]
SingleDropInput == [photos |-> Inventory(1, 0), worldSize |-> 1400]

NoItem == [w |-> 0, h |-> 0, rotation |-> 0, shade |-> 0]

\* the page before the computation starts, for the inputs given
SolverStart ==
    /\ pc = "start"
    /\ rngT = Word(0, 0)
    /\ i = 0
    /\ list = <<>>
    /\ partner = <<>>
    /\ cur = NoItem
    /\ step = 0
    /\ placement = NoPlacement(0, 0, 0, Word(0, 0))
    /\ used = <<>>
    /\ dropped = {}
    /\ run = 0
    /\ prevList = <<>>

WrapIdle ==
    /\ wrapV = 0
    /\ wrapPeriod = 1
    /\ wrapped = <<>>

SolverInit ==
    /\ \/ /\ photos \in Inventories
          /\ filterDir \in Filters
          /\ WORLD_SIZE \in WorldSizes
       \/ \E inp \in {FallbackInput, DropInput} :
             /\ photos = inp.photos
             /\ filterDir = ""
             /\ WORLD_SIZE = inp.worldSize
    /\ SolverStart
    /\ WrapIdle
    /\ SampleIdle
    /\ ViewIdle

inputVars == <<photos, filterDir, WORLD_SIZE>>

\* lines 298-326: the callback starts; no photos, no items
Start ==
    /\ pc = "start"
    /\ rngT' = createSeededRng(RngSeed)
    /\ i' = 0
    /\ list' = <<>>
    /\ partner' = <<>>
    /\ dropped' = {}
    /\ pc' = IF Len(usablePhotos) = 0 THEN "return" ELSE "item"
    /\ UNCHANGED <<inputVars, cur, step, placement, used, run, prevList>>
    /\ UNCHANGED <<wrapVars, sampleVars, viewVars>>

\* lines 328-373: the next photo's tier, base size, rotation and shade
BeginItem ==
    /\ pc = "item"
    /\ i < Len(usablePhotos)
    /\ LET p  == usablePhotos[i + 1]
           t1 == RngStep[rngT]
           t2 == RngStep[t1]
           t3 == RngStep[t2]
           t4 == RngStep[t3]
       IN  /\ cur' = BaseSize[AspectOf(p), TierLimits[RngOut[t1]], RngOut[t2]]
                        @@ [rotation |-> RngRound[RngOut[t3], 10] - 5,
                            shade |-> RngFloor[RngOut[t4], NumShades]]
           /\ rngT' = t4
    /\ step' = 1
    /\ used' = <<>>
    /\ pc' = "place"
    /\ UNCHANGED <<inputVars, i, list, partner, placement, dropped, run, prevList>>
    /\ UNCHANGED <<wrapVars, sampleVars, viewVars>>

\* lines 503-510: one shrink step
TryShrink ==
    /\ pc = "place"
    /\ step <= Len(shrinkSteps)
    /\ placement' = findPlacement(MathMax(MinTileW, RoundDiv(cur.w * shrinkSteps[step], 100)),
                                  MathMax(MinTileH, RoundDiv(cur.h * shrinkSteps[step], 100)),
                                  maxAttempts)
    /\ rngT' = placement'.t
    /\ used' = Append(used, placement'.attempts)
    /\ pc' = IF placement'.found THEN "push" ELSE "place"
    /\ step' = IF placement'.found THEN step ELSE step + 1
    /\ UNCHANGED <<inputVars, i, list, partner, cur, dropped, run, prevList>>
    /\ UNCHANGED <<wrapVars, sampleVars, viewVars>>

\* the budget of the final fallback (line 514)
tripleBudget == maxAttempts * 3

fallbackAttempts == maxAttempts * 2

\* the final fallback without the test of line 518: the item is recorded anyway
TryFallbackUnchecked ==
    /\ pc = "place"
    /\ step > Len(shrinkSteps)
    /\ placement' = findPlacement(FallbackW, FallbackH, fallbackAttempts)
    /\ rngT' = placement'.t
    /\ used' = Append(used, placement'.attempts)
    /\ pc' = "push"
    /\ UNCHANGED <<inputVars, i, list, partner, cur, step, dropped, run, prevList>>
    /\ UNCHANGED <<wrapVars, sampleVars, viewVars>>

\* lines 512-518: the final fallback, and the test that skips the item
TryFallback ==
    /\ pc = "place"
    /\ step > Len(shrinkSteps)
    /\ placement' = findPlacement(FallbackW, FallbackH, fallbackAttempts)
    /\ rngT' = placement'.t
    /\ used' = Append(used, placement'.attempts)
    /\ pc' = IF placement'.found THEN "push" ELSE "skip"
    /\ UNCHANGED <<inputVars, i, list, partner, cur, step, dropped, run, prevList>>
    /\ UNCHANGED <<wrapVars, sampleVars, viewVars>>

\* line 518: continue with the next photo
Skip ==
    /\ pc = "skip"
    /\ i' = i + 1
    /\ dropped' = dropped \cup {i + 1}
    /\ pc' = "item"
    /\ UNCHANGED <<inputVars, rngT, list, partner, cur, step, placement, used, run, prevList>>
    /\ UNCHANGED <<wrapVars, sampleVars, viewVars>>

\* lines 536-539: the new item and the item it overlaps become partners
linkPartners(table, newIndex, overlapIndex) ==
    IF overlapIndex # 0
    THEN [table EXCEPT ![newIndex] = overlapIndex, ![overlapIndex] = newIndex]
    ELSE table

\* lines 520-539: the item is recorded, with its partner link
Push ==
    /\ pc = "push"
    /\ LET p == usablePhotos[i + 1]
           newIndex == Len(list) + 1
           item == [id |-> p.file, src |-> p.src, dir |-> p.dir, order |-> p.order,
                    x |-> placement.x, y |-> placement.y,
                    w |-> placement.w, h |-> placement.h,
                    rotation |-> cur.rotation, shade |-> cur.shade]
       IN  /\ list' = Append(list, item)
           /\ partner' = linkPartners(Append(partner, 0), newIndex, placement.overlapIndex)
    /\ i' = i + 1
    /\ pc' = "item"
    /\ UNCHANGED <<inputVars, rngT, cur, step, placement, used, dropped, run, prevList>>
    /\ UNCHANGED <<wrapVars, sampleVars, viewVars>>

\* line 542 (and line 320): the list is returned
Return ==
    /\ \/ pc = "return"
       \/ pc = "item" /\ i >= Len(usablePhotos)
    /\ pc' = "done"
    /\ run' = run + 1
    /\ UNCHANGED <<inputVars, rngT, i, list, partner, cur, step, placement, used,
                   dropped, prevList>>
    /\ UNCHANGED <<wrapVars, sampleVars, viewVars>>

\* the memo is computed again from the same photos, filterDir and WORLD_SIZE
Recompute ==
    /\ pc = "done"
    /\ run < MaxRuns
    /\ prevList' = list
    /\ pc' = "start"
    /\ UNCHANGED <<inputVars, rngT, i, list, partner, cur, step, placement, used,
                   dropped, run>>
    /\ UNCHANGED <<wrapVars, sampleVars, viewVars>>

\* the camera offset is wrapped, and the wrapped offset is wrapped again
\* (lines 632-633 and 721-722 wrap the offsets they wrapped before)
Wrap ==
    /\ Len(wrapped) < MaxWraps
    /\ wrapped' = Append(wrapped,
                         wrapTranslateWithPeriod(IF wrapped = <<>> THEN wrapV
                                                 ELSE wrapped[Len(wrapped)],
                                                 wrapPeriod))
    /\ UNCHANGED <<wrapV, wrapPeriod, solverVars, sampleVars, viewVars>>

MaxSamples == 1

\* values of rng(): 0, the quarters, 0.82 (the first value that samples
\* uniformly, line 398), and the largest value below 1
SampleWords ==
    {Word(0, 0), Word(16384, 0), Word(32768, 0), Word(49152, 0), Word(53740, 0),
     Word(Half - 1, Half - 1)}

\* lines 397-422: one call of sampleCandidate, whatever the generator returns
Sample ==
    /\ Len(candidates) < MaxSamples
    /\ \E u1 \in SampleWords, u2 \in SampleWords, u3 \in SampleWords :
          candidates' = Append(candidates,
                               sampleCandidate[u1, u2, u3, tileW,
                                               tileH + CAPTION_GAP + CAPTION_HEIGHT])
    /\ UNCHANGED <<tileW, tileH, solverVars, wrapVars, viewVars>>

\* lines 785-786: scrollToCenter wraps both offsets, then takes the delta
RecenterDelta ==
    /\ recenterDelta = <<>>
    /\ recenterDelta' =
          <<wrapDeltaWithPeriod(wrapTranslateWithPeriod(desiredV, wrapPeriod)
                                    - wrapTranslateWithPeriod(wrapV, wrapPeriod),
                                wrapPeriod)>>
    /\ UNCHANGED <<desiredV, wrapVars, sampleVars, solverVars, ctlVars>>

(***************************************************************************)
(* The camera: computeScale, the tile size on screen, visibleByTile.       *)
(***************************************************************************)
\* lines 595-602; exact for the windows whose scale is a whole number of hundredths
computeScale(vw, vh) ==
    clamp(RoundDiv(MathMin(vw, vh) * 100, scaleBase), scaleMin, scaleMax)

\* lines 616, 664, 773: WORLD_SIZE * s, in hundredths of a pixel
Tile == WORLD_SIZE * worldScale

Point(x, y) == [x |-> x, y |-> y]

wrapPoint(p, period) ==
    Point(wrapTranslateWithPeriod(p.x, period), wrapTranslateWithPeriod(p.y, period))

TileOffsets == {-1, 0, 1} \X {-1, 0, 1}

(***************************************************************************)
(* placeholderItems (lines 266-295) and renderItems (line 545).            *)
(***************************************************************************)
PlaceholderSeed == 777
placeholderCount == 24
placeholderMargin == 360

placeholderList(worldSize) ==
    [k \in 1..placeholderCount |->
        LET draw(j) == RngOut[RngJump[createSeededRng(PlaceholderSeed), 6 * (k - 1) + j]]
            w == 160 + RngRound[draw(1), 260]
            h == 130 + RngRound[draw(2), 210]
        IN  [id |-> k - 1,
             src |-> <<>>,
             x |-> placeholderMargin
                     + RngRound[draw(3), worldSize - placeholderMargin * 2 - w],
             y |-> placeholderMargin
                     + RngRound[draw(4), worldSize - placeholderMargin * 2
                                           - (h + CAPTION_GAP + CAPTION_HEIGHT)],
             w |-> w,
             h |-> h,
             rotation |-> RngRound[draw(5), 10] - 5,
             shade |-> RngFloor[draw(6), NumShades]]]

\* the lists of the two pages, computed once
PlaceholdersMain == placeholderList(DEFAULT_WORLD_SIZE)
PlaceholdersCategory == placeholderList(2600)

placeholderItems ==
    IF photosStatus # "loading" THEN <<>>
    ELSE IF WORLD_SIZE = DEFAULT_WORLD_SIZE THEN PlaceholdersMain
    ELSE IF WORLD_SIZE = 2600 THEN PlaceholdersCategory
    ELSE placeholderList(WORLD_SIZE)

renderItems == IF Len(list) > 0 THEN list ELSE placeholderItems

\* a culler that forgets the caption strip below the tile
isVisibleWithoutCaption(it, tx, ty) ==
    LET x1 == renderOffset.x + (tx * WORLD_SIZE + it.x) * worldScale
        y1 == renderOffset.y + (ty * WORLD_SIZE + it.y) * worldScale
        x2 == x1 + it.w * worldScale
        y2 == y1 + it.h * worldScale
    IN  /\ x2 >= -(bufferPx * PxUnits)
        /\ x1 <= (viewportSize.w + bufferPx) * PxUnits
        /\ y2 >= -(bufferPx * PxUnits)
        /\ y1 <= (viewportSize.h + bufferPx) * PxUnits

\* lines 558-575
isVisibleInTile(it, tx, ty) ==
    LET totalH == it.h + CAPTION_GAP + CAPTION_HEIGHT
        x1 == renderOffset.x + (tx * WORLD_SIZE + it.x) * worldScale
        y1 == renderOffset.y + (ty * WORLD_SIZE + it.y) * worldScale
        x2 == x1 + it.w * worldScale
        y2 == y1 + totalH * worldScale
    IN  /\ x2 >= -(bufferPx * PxUnits)
        /\ x1 <= (viewportSize.w + bufferPx) * PxUnits
        /\ y2 >= -(bufferPx * PxUnits)
        /\ y1 <= (viewportSize.h + bufferPx) * PxUnits

\* lines 547-586: the map from tile offsets to the items drawn in that copy,
\* the empty map as long as the viewport has no size
visibleByTile ==
    IF viewportSize.w = 0 \/ viewportSize.h = 0 THEN <<>>
    ELSE [t \in TileOffsets |->
             LET isVisible(it) == isVisibleInTile(it, t[1], t[2])
             IN  SelectSeq(renderItems, isVisible)]

\* line 981: visibleByTile.get(key) ?? []
visibleIn(t) == IF t \in DOMAIN visibleByTile THEN visibleByTile[t] ELSE <<>>

(***************************************************************************)
(* The clocks after d tenths of a millisecond have passed.                 *)
(***************************************************************************)
animAfter(d) ==
    IF centerAnim = NoAnim THEN NoAnim
    ELSE [centerAnim EXCEPT !.elapsed = MathMin(@ + d, duration)]

rafAfter(d) == IF sinceRaf = NoTime THEN NoTime ELSE MathMin(sinceRaf + d, dtMax)

pointerAfter(d) == MathMin(sincePointer + d, MaxPointerGap)

\* a suppression window that the next handler forgets
suppressOver(d) == 0

suppressAfter(d) == MathMax(suppressLeft - d, 0)

(***************************************************************************)
(* tick (lines 659-759)                                                    *)
(***************************************************************************)
\* line 668
tickDt(d) == IF sinceRaf = NoTime THEN dtMin ELSE clamp(sinceRaf + d, dtMin, dtMax)

\* lines 674-676, in thousandths
easeOutCubic ==
    [el \in Nat |->
        [r \in Nat |-> 1000 - RoundDiv(r * r * r, 1000000)]
            [RoundDiv((duration - el) * 1000, duration)]]

animating == centerAnim # NoAnim

gliding == ~animating /\ ~isDragging /\ isInertia

\* lines 699-701
decayed(d) ==
    Point(RoundDiv(velocity.x * ExpNeg[tickDt(d) * frictionRate], ExpUnits),
          RoundDiv(velocity.y * ExpNeg[tickDt(d) * frictionRate], ExpUnits))

\* a glide that ends at its first frame
stopsAtOnce(d) == TRUE

\* line 704
stops(d) == decayed(d).x * decayed(d).x + decayed(d).y * decayed(d).y < stopSpeed * stopSpeed

\* a frame that leaves the target to the drag and the glide alone
motionTarget(d) ==
    IF gliding
    THEN Point(targetOffset.x + RoundDiv(velocity.x * tickDt(d), (VelUnits * MsUnits) \div PxUnits),
               targetOffset.y + RoundDiv(velocity.y * tickDt(d), (VelUnits * MsUnits) \div PxUnits))
    ELSE targetOffset

\* lines 677-678 and 695-696: the target before line 744
tickTarget(d) ==
    IF animating
    THEN Point(centerAnim.startX
                   + RoundDiv((centerAnim.endX - centerAnim.startX)
                                  * easeOutCubic[animAfter(d).elapsed], 1000),
               centerAnim.startY
                   + RoundDiv((centerAnim.endY - centerAnim.startY)
                                  * easeOutCubic[animAfter(d).elapsed], 1000))
    ELSE IF gliding
    THEN Point(targetOffset.x + RoundDiv(velocity.x * tickDt(d), (VelUnits * MsUnits) \div PxUnits),
               targetOffset.y + RoundDiv(velocity.y * tickDt(d), (VelUnits * MsUnits) \div PxUnits))
    ELSE targetOffset

\* a glide that no frame ends
glidesOn(d) == gliding

\* lines 680, 693, 705
tickInertia(d) == gliding /\ ~stops(d)

\* lines 712-713, in thousandths
tickAlpha(d) ==
    1000 - RoundDiv(ExpNeg[tickDt(d) * (IF isDragging THEN followDragging
                                         ELSE IF tickInertia(d) THEN followInertia
                                         ELSE followIdle)], ExpUnits \div 1000)

\* lines 682-683 and 714-715: the current offset before line 742
tickCurrent(d) ==
    IF animating /\ animAfter(d).elapsed >= duration
    THEN tickTarget(d)
    ELSE Point(currentOffset.x
                   + RoundDiv((tickTarget(d).x - currentOffset.x) * tickAlpha(d), 1000),
               currentOffset.y
                   + RoundDiv((tickTarget(d).y - currentOffset.y) * tickAlpha(d), 1000))

\* lines 728-733: the viewport centre in world coordinates, its wrapped distance
\* from the world centre, on screen in quarters of a pixel
viewCenterWorld(win, display) ==
    JsRem(RoundDiv((win * (PxUnits \div 2) - display) * 100, worldScale)
              + WORLD_SIZE * 10 * PxUnits,
          WORLD_SIZE * PxUnits)

centerDistance(win, display) ==
    RoundDiv(RoundDiv(wrapDeltaOnWorld(viewCenterWorld(win, display)
                                           - (WORLD_SIZE \div 2) * PxUnits,
                                       WORLD_SIZE * PxUnits), 25) * worldScale, 100)

\* a flag that looks at the horizontal distance only
nextShowByX(display) ==
    centerDistance(windowSize.w, display.x) * centerDistance(windowSize.w, display.x)
        > (showDistance * 4) * (showDistance * 4)

nextShow(display) ==
    centerDistance(windowSize.w, display.x) * centerDistance(windowSize.w, display.x)
      + centerDistance(windowSize.h, display.y) * centerDistance(windowSize.h, display.y)
        > (showDistance * 4) * (showDistance * 4)

\* line 741
isFar(p) ==
    \/ p.x > farAway * PxUnits
    \/ -p.x > farAway * PxUnits
    \/ p.y > farAway * PxUnits
    \/ -p.y > farAway * PxUnits

\* line 754
near(a, b) == a - b < publishStep /\ b - a < publishStep

tickAfter(d) ==
    /\ mounted
    /\ centerAnim' = IF animating /\ animAfter(d).elapsed < duration THEN animAfter(d)
                     ELSE NoAnim
    /\ velocity' = IF gliding /\ ~stops(d) THEN decayed(d)
                   ELSE IF animating \/ gliding THEN Zero
                   ELSE velocity
    /\ isInertia' = tickInertia(d)
    /\ sinceRaf' = 0
    /\ worldTransform' = wrapPoint(tickCurrent(d), Tile)
    /\ currentOffset' = IF isFar(tickCurrent(d)) THEN worldTransform'
                        ELSE tickCurrent(d)
    /\ targetOffset' = IF isFar(tickCurrent(d)) THEN worldTransform'
                       ELSE tickTarget(d)
    /\ showCenterButton' = nextShow(worldTransform')
    /\ renderOffset' =
          IF /\ near(renderOffset.x, worldTransform'.x)
             /\ near(renderOffset.y, worldTransform'.y)
          THEN renderOffset
          ELSE worldTransform'
    /\ sincePointer' = pointerAfter(d)
    /\ suppressLeft' = suppressAfter(d)
    /\ UNCHANGED <<windowSize, mounted, viewportSize, worldScale, photosStatus, selected,
                   isDragging, hasCapture, activePointerId, lastPointerPos, movedDistance>>
    /\ UNCHANGED <<solverVars, wrapVars, sampleVars, deltaVars>>

FrameGap == 160
LongFrameGap == 500
MaxQuiet == 1

\* a frame of the rAF loop, 16 ms after the handler before it
Tick ==
    /\ tickAfter(FrameGap)
    /\ framesSinceInput' = MathMin(framesSinceInput + 1, MaxQuiet + 1)
    /\ UNCHANGED inputsLeft

\* a frame that comes late, 50 ms after the handler before it
LateTick ==
    /\ inputsLeft > 0
    /\ tickAfter(LongFrameGap)
    /\ framesSinceInput' = MathMin(framesSinceInput + 1, MaxQuiet + 1)
    /\ inputsLeft' = inputsLeft - 1

(***************************************************************************)
(* The inputs.  An input arrives d tenths of a millisecond after the       *)
(* handler before it, while inputs are left and at most MaxQuiet frames    *)
(* after the input before it.                                              *)
(***************************************************************************)
MaxInputs == 4
PointerIds == {1, 2}
PointerDownAt == [x |-> 640, y |-> 400]
InputGap == 20

\* <<dx, dy, d>>: the pointer moved by (dx, dy) pixels, d after the handler before
Gestures == {<<40, 0, 144>>, <<3, 4, 20>>, <<220, 240, 20>>, <<11, 0, 500>>}

inputArrives ==
    /\ mounted
    /\ inputsLeft > 0
    /\ framesSinceInput <= MaxQuiet
    /\ inputsLeft' = inputsLeft - 1
    /\ framesSinceInput' = 0

\* lines 604-640 with opts.center: the layout effect before the first paint
Mount ==
    /\ ~mounted
    /\ mounted' = TRUE
    /\ viewportSize' = windowSize
    /\ worldScale' = computeScale(windowSize.w, windowSize.h)
    /\ targetOffset' =
          Point(wrapTranslateWithPeriod(windowSize.w * (PxUnits \div 2)
                                            - (WORLD_SIZE * worldScale') \div 2,
                                        WORLD_SIZE * worldScale'),
                wrapTranslateWithPeriod(windowSize.h * (PxUnits \div 2)
                                            - (WORLD_SIZE * worldScale') \div 2,
                                        WORLD_SIZE * worldScale'))
    /\ currentOffset' = targetOffset'
    /\ worldTransform' = targetOffset'
    /\ UNCHANGED <<windowSize, renderOffset, photosStatus, showCenterButton, selected,
                   isDragging, hasCapture, centerAnim, activePointerId, lastPointerPos, sincePointer,
                   movedDistance, suppressLeft, velocity, isInertia, sinceRaf,
                   inputsLeft, framesSinceInput>>
    /\ UNCHANGED <<solverVars, wrapVars, sampleVars, deltaVars>>

\* lines 850-865, for the primary button or a touch
onPointerDown(id) ==
    /\ inputArrives
    /\ id # activePointerId
    /\ id = 2 => activePointerId = 1
    /\ activePointerId' = id
    /\ lastPointerPos' = PointerDownAt
    /\ sincePointer' = 0
    /\ sinceRaf' = NoTime
    /\ velocity' = Zero
    /\ isInertia' = FALSE
    /\ movedDistance' = 0
    /\ isDragging' = TRUE
    /\ hasCapture' = TRUE
    /\ centerAnim' = animAfter(InputGap)
    /\ suppressLeft' = suppressAfter(InputGap)
    /\ UNCHANGED <<cameraVars, targetOffset, currentOffset>>
    /\ UNCHANGED <<solverVars, wrapVars, sampleVars, deltaVars>>

PointerDown == \E id \in PointerIds : onPointerDown(id)

\* line 879
pointerDt(d) == MathMax(pointerDtMin, pointerAfter(d))

\* lines 888-889: dx / dt in thousandths of a pixel per millisecond
instV(dx, d) == RoundDiv(dx * VelUnits * MsUnits, pointerDt(d))

\* lines 870-894: the move of the active pointer
pointerMoves(id, g) ==
    /\ inputArrives
    /\ activePointerId # NoPointer
    /\ id = activePointerId
    /\ lastPointerPos' = Point(lastPointerPos.x + g[1], lastPointerPos.y + g[2])
    /\ movedDistance' = movedDistance + Hypot[g[1] * PxUnits, g[2] * PxUnits]
    /\ sincePointer' = 0
    /\ targetOffset' = Point(targetOffset.x + g[1] * PxUnits, targetOffset.y + g[2] * PxUnits)
    /\ velocity' = Point(RoundDiv(velocity.x * 82 + instV(g[1], g[3]) * 18, 100),
                         RoundDiv(velocity.y * 82 + instV(g[2], g[3]) * 18, 100))
    /\ centerAnim' = animAfter(g[3])
    /\ sinceRaf' = rafAfter(g[3])
    /\ suppressLeft' = suppressAfter(g[3])
    /\ UNCHANGED <<cameraVars, isDragging, hasCapture, currentOffset, activePointerId, isInertia>>
    /\ UNCHANGED <<solverVars, wrapVars, sampleVars, deltaVars>>

\* lines 866-895
onPointerMove(id, g) ==
    \/ /\ mounted
       /\ activePointerId = NoPointer \/ id # activePointerId
       /\ UNCHANGED <<solverVars, wrapVars, sampleVars, viewVars>>
    \/ pointerMoves(id, g)

PointerMove == \E id \in PointerIds, g \in Gestures : onPointerMove(id, g)

speedOf(v) == Hypot[v.x, v.y]

tooFast(v) == v.x * v.x + v.y * v.y > maxSpeed * maxSpeed

\* a release that keeps the speed it finds
keepSpeed(v) == v

\* lines 909-914
clampSpeed(v) ==
    IF tooFast(v)
    THEN Point(RoundDiv(v.x * maxSpeed, speedOf(v)), RoundDiv(v.y * maxSpeed, speedOf(v)))
    ELSE v

\* a release that glides whatever the distance dragged
startsInertiaAlways(v) == v.x * v.x + v.y * v.y > minInertiaSpeed * minInertiaSpeed

\* line 915
startsInertia(v) ==
    /\ movedDistance > minInertiaDistance
    /\ v.x * v.x + v.y * v.y > minInertiaSpeed * minInertiaSpeed

\* lines 900-922 and endDrag (765-769): the release of the active pointer
pointerReleases(id) ==
    /\ inputArrives
    /\ activePointerId # NoPointer
    /\ id = activePointerId
    /\ suppressLeft' = IF movedDistance > suppressDistance THEN suppressWindow
                       ELSE suppressAfter(InputGap)
    /\ velocity' = clampSpeed(velocity)
    /\ isInertia' = startsInertia(velocity)
    /\ activePointerId' = NoPointer
    /\ isDragging' = FALSE
    /\ hasCapture' = FALSE
    /\ centerAnim' = animAfter(InputGap)
    /\ sinceRaf' = rafAfter(InputGap)
    /\ sincePointer' = pointerAfter(InputGap)
    /\ UNCHANGED <<cameraVars, targetOffset, currentOffset, lastPointerPos, movedDistance>>
    /\ UNCHANGED <<solverVars, wrapVars, sampleVars, deltaVars>>

\* lines 896-923
onPointerUp(id) ==
    \/ /\ mounted
       /\ activePointerId = NoPointer \/ id # activePointerId
       /\ UNCHANGED <<solverVars, wrapVars, sampleVars, viewVars>>
    \/ pointerReleases(id)

PointerUp == \E id \in PointerIds : onPointerUp(id)

\* line 924 and endDrag: the handler asks neither which pointer is cancelled
\* nor whether a drag is going on
PointerCancel ==
    /\ inputArrives
    /\ activePointerId' = NoPointer
    /\ isDragging' = FALSE
    /\ hasCapture' = FALSE
    /\ centerAnim' = animAfter(InputGap)
    /\ sinceRaf' = rafAfter(InputGap)
    /\ sincePointer' = pointerAfter(InputGap)
    /\ suppressLeft' = suppressAfter(InputGap)
    /\ UNCHANGED <<cameraVars, targetOffset, currentOffset, lastPointerPos, movedDistance,
                   velocity, isInertia>>
    /\ UNCHANGED <<solverVars, wrapVars, sampleVars, deltaVars>>

\* the tile of item k is drawn in one of the nine copies
drawn(k) ==
    \E t \in TileOffsets :
        \E j \in 1..Len(visibleIn(t)) : visibleIn(t)[j] = renderItems[k]

\* line 982
isPlaceholder(it) == it.src = <<>>

\* lines 1017-1021: the click on the tile of item k, whenever it comes
onClick(k) ==
    /\ mounted
    /\ inputsLeft > 0
    /\ inputsLeft' = inputsLeft - 1
    /\ drawn(k)
    /\ selected' = IF suppressAfter(InputGap) > 0 \/ isPlaceholder(renderItems[k])
                   THEN selected
                   ELSE k
    /\ centerAnim' = animAfter(InputGap)
    /\ sinceRaf' = rafAfter(InputGap)
    /\ sincePointer' = pointerAfter(InputGap)
    /\ suppressLeft' = suppressAfter(InputGap)
    /\ UNCHANGED <<windowSize, mounted, viewportSize, worldScale, worldTransform, renderOffset,
                   photosStatus, showCenterButton, framesSinceInput>>
    /\ UNCHANGED <<isDragging, hasCapture, targetOffset, currentOffset, activePointerId,
                   lastPointerPos, movedDistance, velocity, isInertia>>
    /\ UNCHANGED <<solverVars, wrapVars, sampleVars, deltaVars>>

Click == \E k \in 1..Len(renderItems) : onClick(k)

\* line 1161: the modal closes
onClose ==
    /\ mounted
    /\ selected # 0
    /\ selected' = 0
    /\ centerAnim' = animAfter(InputGap)
    /\ sinceRaf' = rafAfter(InputGap)
    /\ sincePointer' = pointerAfter(InputGap)
    /\ suppressLeft' = suppressAfter(InputGap)
    /\ UNCHANGED <<windowSize, mounted, viewportSize, worldScale, worldTransform, renderOffset,
                   photosStatus, showCenterButton, inputsLeft, framesSinceInput>>
    /\ UNCHANGED <<isDragging, hasCapture, targetOffset, currentOffset, activePointerId,
                   lastPointerPos, movedDistance, velocity, isInertia>>
    /\ UNCHANGED <<solverVars, wrapVars, sampleVars, deltaVars>>

\* the active pointer loses its capture in the middle of a drag: the canvas has
\* no handler for lostpointercapture, and the one for pointerleave (lines
\* 925-928) is empty
onPointerLeave ==
    /\ inputArrives
    /\ isDragging
    /\ hasCapture
    /\ hasCapture' = FALSE
    /\ centerAnim' = animAfter(InputGap)
    /\ sinceRaf' = rafAfter(InputGap)
    /\ sincePointer' = pointerAfter(InputGap)
    /\ suppressLeft' = suppressAfter(InputGap)
    /\ UNCHANGED <<cameraVars, isDragging, targetOffset, currentOffset, activePointerId,
                   lastPointerPos, movedDistance, velocity, isInertia>>
    /\ UNCHANGED <<solverVars, wrapVars, sampleVars, deltaVars>>

\* lines 776-777
desiredOffset ==
    Point(wrapTranslateWithPeriod(windowSize.w * (PxUnits \div 2) - Tile \div 2, Tile),
          wrapTranslateWithPeriod(windowSize.h * (PxUnits \div 2) - Tile \div 2, Tile))

\* a request that leaves an animation in flight as it is
keepOrStart(anim) == IF animating THEN animAfter(InputGap) ELSE anim

\* lines 790-797
startAnim(anim) == anim

\* lines 771-798, by the button that is drawn while showCenterButton is set
scrollToCenter ==
    /\ inputArrives
    /\ showCenterButton
    /\ currentOffset' = wrapPoint(currentOffset, Tile)
    /\ targetOffset' = currentOffset'
    /\ velocity' = Zero
    /\ isInertia' = FALSE
    /\ centerAnim' =
          startAnim([startX |-> currentOffset'.x,
                     startY |-> currentOffset'.y,
                     endX |-> currentOffset'.x
                                + wrapDeltaWithPeriod(desiredOffset.x - currentOffset'.x, Tile),
                     endY |-> currentOffset'.y
                                + wrapDeltaWithPeriod(desiredOffset.y - currentOffset'.y, Tile),
                     elapsed |-> 0])
    /\ sinceRaf' = rafAfter(InputGap)
    /\ sincePointer' = pointerAfter(InputGap)
    /\ suppressLeft' = suppressAfter(InputGap)
    /\ UNCHANGED <<cameraVars, isDragging, hasCapture, activePointerId, lastPointerPos, movedDistance>>
    /\ UNCHANGED <<solverVars, wrapVars, sampleVars, deltaVars>>

\* the sizes a window is resized to: narrower at the same height, and higher
ResizeWindows == {[w |-> 1400, h |-> 600], [w |-> 1672, h |-> 900]}

\* lines 604-640 without opts.center: the resize listener (lines 646-647)
onResize ==
    /\ inputArrives
    /\ \E size \in ResizeWindows :
          /\ windowSize' = size
          /\ viewportSize' = size
          /\ worldScale' = computeScale(size.w, size.h)
    /\ currentOffset' = wrapPoint(currentOffset, WORLD_SIZE * worldScale')
    /\ targetOffset' = wrapPoint(targetOffset, WORLD_SIZE * worldScale')
    /\ centerAnim' = animAfter(InputGap)
    /\ sinceRaf' = rafAfter(InputGap)
    /\ sincePointer' = pointerAfter(InputGap)
    /\ suppressLeft' = suppressAfter(InputGap)
    /\ UNCHANGED <<mounted, worldTransform, renderOffset, photosStatus, showCenterButton,
                   selected>>
    /\ UNCHANGED <<isDragging, hasCapture, activePointerId, lastPointerPos, movedDistance,
                   velocity, isInertia>>
    /\ UNCHANGED <<solverVars, wrapVars, sampleVars, deltaVars>>

vars == <<solverVars, wrapVars, sampleVars, viewVars>>

Init == SolverInit

Next ==
    \/ Start
    \/ BeginItem
    \/ TryShrink
    \/ TryFallback
    \/ Skip
    \/ Push
    \/ Return

\* one computation of the items for each input
Spec == Init /\ [][Next]_vars

\* worlds without extent, as a page that passes worldSize 0 or less has them
DegenerateWorldSizes == {0, -2600}

\* the computation in the worlds without extent, next to the two narrow worlds
DegenerateInit ==
    /\ \/ /\ photos \in Inventories
          /\ Len(photos) > 0
          /\ filterDir = ""
          /\ WORLD_SIZE \in DegenerateWorldSizes
       \/ \E inp \in {FallbackInput, DropInput} :
             /\ photos = inp.photos
             /\ filterDir = ""
             /\ WORLD_SIZE = inp.worldSize
    /\ SolverStart
    /\ WrapIdle
    /\ SampleIdle
    /\ ViewIdle

DegenerateSpec == DegenerateInit /\ [][Next]_vars

\* the computation is a loop that runs to its end once started: on the main
\* page, and in the two narrow worlds that spend whole attempt budgets
FairInit ==
    /\ \/ /\ photos \in Inventories
          /\ filterDir \in Filters
          /\ WORLD_SIZE = DEFAULT_WORLD_SIZE
       \/ \E inp \in {FallbackInput, SingleDropInput} :
             /\ photos = inp.photos
             /\ filterDir = ""
             /\ WORLD_SIZE = inp.worldSize
    /\ SolverStart
    /\ WrapIdle
    /\ SampleIdle
    /\ ViewIdle

FairSpec == FairInit /\ [][Next]_vars /\ WF_vars(Next)

\* the items computed again for the same input
RerunInit ==
    /\ \/ /\ photos \in Inventories
          /\ filterDir \in Filters
          /\ WORLD_SIZE \in WorldSizes
       \/ /\ photos = SingleDropInput.photos
          /\ filterDir = ""
          /\ WORLD_SIZE = SingleDropInput.worldSize
    /\ SolverStart
    /\ WrapIdle
    /\ SampleIdle
    /\ ViewIdle

RerunNext == Next \/ Recompute

RerunSpec == RerunInit /\ [][RerunNext]_vars

\* wrapTranslateWithPeriod applied to values and periods of an integer grid
\* the sizes findPlacement is called with: the smallest shrunken tile, the
\* fallback tile, a small and the largest landscape tile
SampleTiles == {<<MinTileW, MinTileH>>, <<FallbackW, FallbackH>>, <<361, 271>>, <<940, 705>>}

\* the worlds of the pages, and worlds that the larger tiles do not fit
SampleWorlds == {DEFAULT_WORLD_SIZE, 2600, 1424, 1000, 800}

SampleInit ==
    /\ \E tile \in SampleTiles : tileW = tile[1] /\ tileH = tile[2]
    /\ candidates = <<>>
    /\ WORLD_SIZE \in SampleWorlds
    /\ photos = <<>>
    /\ filterDir = ""
    /\ SolverStart
    /\ WrapIdle
    /\ ViewIdle

SampleNext == Sample

SampleSpec == SampleInit /\ [][SampleNext]_vars

WrapInit ==
    /\ wrapV \in (-MaxWrapV)..MaxWrapV
    /\ wrapPeriod \in 1..MaxWrapPeriod
    /\ wrapped = <<>>
    /\ SampleIdle
    /\ photos = <<>>
    /\ filterDir = ""
    /\ WORLD_SIZE = DEFAULT_WORLD_SIZE
    /\ SolverStart
    /\ ViewIdle

WrapNext == Wrap

WrapSpec == WrapInit /\ [][WrapNext]_vars

\* scrollToCenter's delta for offsets and even periods of an integer grid
DeltaInit ==
    /\ wrapV \in (-MaxWrapV)..MaxWrapV
    /\ desiredV \in (-MaxWrapV)..MaxWrapV
    /\ wrapPeriod \in {p \in 1..MaxWrapPeriod : p % 2 = 0}
    /\ wrapped = <<>>
    /\ SampleIdle
    /\ recenterDelta = <<>>
    /\ photos = <<>>
    /\ filterDir = ""
    /\ WORLD_SIZE = DEFAULT_WORLD_SIZE
    /\ SolverStart
    /\ CtlIdle

DeltaNext == RecenterDelta

DeltaSpec == DeltaInit /\ [][DeltaNext]_vars

\* the pages: the main page in a desktop window and on a phone, a category
\* page in a window that is wide and low
Pages ==
    {[worldSize |-> DEFAULT_WORLD_SIZE, window |-> [w |-> 1280, h |-> 800]],
     [worldSize |-> DEFAULT_WORLD_SIZE, window |-> [w |-> 390, h |-> 844]],
     [worldSize |-> 2600, window |-> [w |-> 2000, h |-> 600]]}

\* a page as it is constructed, its photos still loading
CtlInit ==
    /\ \E page \in Pages :
          /\ WORLD_SIZE = page.worldSize
          /\ windowSize = page.window
    /\ photos = <<>>
    /\ filterDir = ""
    /\ photosStatus = "loading"
    /\ inputsLeft = MaxInputs
    /\ Constructed
    /\ SolverStart
    /\ WrapIdle
    /\ SampleIdle
    /\ DeltaIdle

CtlNext ==
    \/ Mount
    \/ Tick
    \/ LateTick
    \/ PointerDown
    \/ PointerMove
    \/ PointerUp
    \/ PointerCancel
    \/ onPointerLeave
    \/ scrollToCenter

CtlSpec == CtlInit /\ [][CtlNext]_vars

\* the main page in a desktop window, and a category page in a window 1672 px
\* wide, where the centred offset is 100 px from the end of a period
ResizePages ==
    {[worldSize |-> DEFAULT_WORLD_SIZE, window |-> [w |-> 1280, h |-> 800]],
     [worldSize |-> 2600, window |-> [w |-> 1672, h |-> 600]]}

ResizeInit ==
    /\ \E page \in ResizePages :
          /\ WORLD_SIZE = page.worldSize
          /\ windowSize = page.window
    /\ photos = <<>>
    /\ filterDir = ""
    /\ photosStatus = "loading"
    /\ inputsLeft = MaxInputs
    /\ Constructed
    /\ SolverStart
    /\ WrapIdle
    /\ SampleIdle
    /\ DeltaIdle

ResizeNext ==
    \/ Mount
    \/ Tick
    \/ PointerDown
    \/ PointerMove
    \/ PointerUp
    \/ onResize

ResizeSpec == ResizeInit /\ [][ResizeNext]_vars

\* a page in a window without size, as a hidden frame has it
HiddenPage == [worldSize |-> DEFAULT_WORLD_SIZE, window |-> [w |-> 0, h |-> 0]]

MaxCullInputs == 3

\* the pages while the camera is dragged and released
CullInit ==
    /\ \E page \in Pages \cup {HiddenPage} :
          /\ WORLD_SIZE = page.worldSize
          /\ windowSize = page.window
    /\ photos = <<>>
    /\ filterDir = ""
    /\ photosStatus = "loading"
    /\ inputsLeft = MaxCullInputs
    /\ Constructed
    /\ SolverStart
    /\ WrapIdle
    /\ SampleIdle
    /\ DeltaIdle

CullNext ==
    \/ Mount
    \/ Tick
    \/ PointerDown
    \/ PointerMove
    \/ PointerUp

CullSpec == CullInit /\ [][CullNext]_vars

MaxPlaceholderInputs == 2

\* the main page while its photos load, showing placeholders, and once two
\* photos are loaded
ClickInit ==
    /\ \/ /\ photos = <<>>
          /\ photosStatus = "loading"
          /\ inputsLeft = MaxPlaceholderInputs
       \/ /\ photos = Inventory(2, 0)
          /\ photosStatus = "loaded"
          /\ inputsLeft = MaxInputs
    /\ filterDir = ""
    /\ WORLD_SIZE = DEFAULT_WORLD_SIZE
    /\ windowSize = [w |-> 1280, h |-> 800]
    /\ Constructed
    /\ SolverStart
    /\ WrapIdle
    /\ SampleIdle
    /\ DeltaIdle

\* the items are computed (both photos are placed at full size), then the
\* page is used
ClickNext ==
    \/ Start
    \/ BeginItem
    \/ TryShrink
    \/ Push
    \/ Return
    \/ pc = "done" /\ Mount
    \/ pc = "done" /\ Tick
    \/ pc = "done" /\ PointerDown
    \/ pc = "done" /\ PointerMove
    \/ pc = "done" /\ PointerUp
    \/ pc = "done" /\ Click
    \/ pc = "done" /\ onClose

ClickSpec == ClickInit /\ [][ClickNext]_vars

\* the pages whose frames are followed to the end of every motion
FairPages ==
    {[worldSize |-> DEFAULT_WORLD_SIZE, window |-> [w |-> 1280, h |-> 800]]}

CtlFairInit ==
    /\ CtlInit
    /\ [worldSize |-> WORLD_SIZE, window |-> windowSize] \in FairPages

\* the rAF loop keeps running: every frame requests the next one (line 758)
CtlFairSpec == CtlFairInit /\ [][CtlNext]_vars /\ WF_vars(Mount) /\ WF_vars(Tick)

(***************************************************************************)
(* Properties of the layout.  The rectangles are compared here by their    *)
(* edges, not by overlapArea.                                              *)
(***************************************************************************)
Items == 1..Len(list)

TileOf(k) == Rect(list[k].x, list[k].y, list[k].w, list[k].h)

CaptionRectOf(k) ==
    Rect(list[k].x, list[k].y + list[k].h + CAPTION_GAP, list[k].w, CAPTION_HEIGHT)

FootprintOf(k) ==
    Rect(list[k].x, list[k].y, list[k].w, list[k].h + CAPTION_GAP + CAPTION_HEIGHT)

\* a and b intersect with positive area
Meets(a, b) ==
    /\ a.x < b.x + b.w
    /\ b.x < a.x + a.w
    /\ a.y < b.y + b.h
    /\ b.y < a.y + a.h

\* the area a and b share
Shared(a, b) ==
    IF Meets(a, b)
    THEN (MathMin(a.x + a.w, b.x + b.w) - MathMax(a.x, b.x))
            * (MathMin(a.y + a.h, b.y + b.h) - MathMax(a.y, b.y))
    ELSE 0

\* the photo item k was made from
PhotoOf(k) ==
    usablePhotos[CHOOSE j \in 1..Len(usablePhotos) : usablePhotos[j].src = list[k].src]

\* C1: the tiles that intersect form a matching: when the tiles of two placed
\* items intersect, neither of the two intersects the tile of a third item.
C1_OverlapIsMatching ==
    \A a, b, c \in Items :
        (a # b /\ a # c /\ b # c /\ Meets(TileOf(a), TileOf(b)))
            => (~Meets(TileOf(a), TileOf(c)) /\ ~Meets(TileOf(b), TileOf(c)))

\* three items are placed, the last one after a rejected candidate
C1_ThreePlaced == pc = "item" /\ Len(list) >= 3 /\ placement.found /\ placement.attempts > 1

\* C2: two tiles that intersect share at most 10% of the area of each, the
\* areas being those of the sizes placed.
C2_CoverAtMostTenth ==
    \A a, b \in Items :
        (a # b /\ Meets(TileOf(a), TileOf(b)))
            => /\ Shared(TileOf(a), TileOf(b)) * 10 <= list[a].w * list[a].h
               /\ Shared(TileOf(a), TileOf(b)) * 10 <= list[b].w * list[b].h

\* an item placed at a shrunken size next to others
C2_ShrunkenPlaced ==
    /\ pc = "item"
    /\ Len(list) >= 2
    /\ placement.found
    /\ Len(used) >= 2
    /\ list[Len(list)].w = placement.w

\* C3: the caption of a placed item intersects neither the tile nor the
\* caption of another placed item, whichever of the two was placed first.
C3_CaptionsClear ==
    \A a, b \in Items :
        a # b => /\ ~Meets(CaptionRectOf(a), TileOf(b))
                 /\ ~Meets(CaptionRectOf(a), CaptionRectOf(b))

\* two items in the same columns, the later one placed above the earlier one
C3_Stacked ==
    \E a, b \in Items :
        /\ a < b
        /\ list[a].x < list[b].x + list[b].w
        /\ list[b].x < list[a].x + list[a].w
        /\ list[b].y < list[a].y

\* C4: the footprint of a placed item (tile, gap and caption) does not
\* intersect the 1300 x 440 rectangle centred in the world, whatever the
\* world size.  Coordinates are doubled: half the world size need not be whole.
C4_CenterClear ==
    \A k \in Items :
        ~Meets(Twice(FootprintOf(k)), Rect(WORLD_SIZE - 1300, WORLD_SIZE - 440, 2600, 880))

\* an item right above or below the rectangle, in a world that is not the default one
C4_BesideCenter ==
    /\ WORLD_SIZE # DEFAULT_WORLD_SIZE
    /\ \E k \in Items :
          /\ 2 * list[k].x < WORLD_SIZE + 1300
          /\ 2 * (list[k].x + list[k].w) > WORLD_SIZE - 1300
          /\ 2 * list[k].y < WORLD_SIZE + 440 + 200
          /\ 2 * (list[k].y + list[k].h) > WORLD_SIZE - 440 - 200

\* C5: a placed item has the aspect ratio of its photo (4 / 3 without
\* dimensions) up to the rounding of its width and height to whole pixels,
\* whichever round placed it: |w - h * ar| <= 1 + ar.
C5_AspectKept ==
    \A k \in Items :
        LET ar == AspectOf(PhotoOf(k))
            d  == list[k].w * ar[2] - list[k].h * ar[1]
        IN  d <= ar[1] + ar[2] /\ -d <= ar[1] + ar[2]

\* C6: when the four rounds of an item have failed, the next step leaves the
\* list and the partner links as they are and moves on to the next photo, and
\* a dropped photo is in no later list.
C6_DroppedLeavesNoTrace ==
    /\ [][(pc \in {"skip", "push"} /\ Len(used) = 4 /\ ~placement.found)
            => (list' = list /\ partner' = partner /\ i' = i + 1 /\ pc' = "item")]_vars
    /\ [](\A d \in dropped : \A k \in Items : list[k].src # usablePhotos[d].src)

\* the first photo was dropped, a later one placed, and the one after it has
\* just been dropped
C6_DroppedAmongPlaced ==
    /\ pc = "item"
    /\ Len(list) >= 1
    /\ 1 \in dropped
    /\ i \in dropped

\* C7: computed again for the same photos, filter and world size, the list
\* is the one computed before: same positions, sizes and rotations.
C7_SameListAgain == (pc = "done" /\ run >= 2) => list = prevList

\* a second computation has returned a list of three items or more
C7_ComputedTwice == pc = "done" /\ run >= 2 /\ Len(list) >= 3

\* C8: the computation ends, and an item uses at most 6000 attempts in each
\* of its three shrink steps and 12000 in the fallback, 30000 in all.
C8_Terminates ==
    /\ <>(pc = "done")
    /\ [](/\ Len(used) <= 4
          /\ \A k \in 1..Len(used) : used[k] <= (IF k <= 3 THEN 6000 ELSE 12000)
          /\ (Len(used) = 4 => used[1] + used[2] + used[3] + used[4] <= 30000))

\* an item that used all of its 30000 attempts
C8_BudgetSpent == pc = "skip" /\ used = <<6000, 6000, 6000, 12000>>

\* C9: wrapTranslateWithPeriod(v, period) is greater than -period and at most 0.
C9_InHalfOpenInterval ==
    \A k \in 1..Len(wrapped) : wrapped[k] > -wrapPeriod /\ wrapped[k] <= 0

\* C10: wrapping a wrapped value returns it unchanged.
C10_WrapIdempotent ==
    \A k \in 2..Len(wrapped) : wrapped[k] = wrapped[k - 1]

\* a value outside the interval was wrapped, and the result wrapped again
C10_WrappedTwice == Len(wrapped) >= 2 /\ wrapped[1] # wrapV

(***************************************************************************)
(* Properties of the camera and of its motion controller.                  *)
(***************************************************************************)
Abs(a) == IF a >= 0 THEN a ELSE -a

\* C11: the delta scrollToCenter computes from the wrapped desired offset and
\* the wrapped current offset is at most half a period long
C11_DeltaWithinHalfPeriod ==
    \A k \in 1..Len(recenterDelta) : 2 * Abs(recenterDelta[k]) <= wrapPeriod


\* the bounding box of an item on screen in the world copy t: the tile, the
\* gap and the caption, shifted by t, scaled, moved by the published offset
ScreenBox(it, t) ==
    Rect(renderOffset.x + (t[1] * WORLD_SIZE + it.x) * worldScale,
         renderOffset.y + (t[2] * WORLD_SIZE + it.y) * worldScale,
         it.w * worldScale,
         (it.h + CAPTION_GAP + CAPTION_HEIGHT) * worldScale)

\* the viewport, 500 px wider on every side
ExpandedViewport ==
    Rect(-(500 * PxUnits), -(500 * PxUnits),
         (viewportSize.w + 1000) * PxUnits, (viewportSize.h + 1000) * PxUnits)

\* a and b have a point in common
Touches(a, b) ==
    /\ MathMax(a.x, b.x) <= MathMin(a.x + a.w, b.x + b.w)
    /\ MathMax(a.y, b.y) <= MathMin(a.y + a.h, b.y + b.h)

\* the item k is in the sequence drawn
DrawnIn(seq, k) == \E j \in 1..Len(seq) : seq[j] = renderItems[k]

Drawn(k, t) == DrawnIn(visibleIn(t), k)

OnScreen(k, t) == Touches(ScreenBox(renderItems[k], t), ExpandedViewport)

\* C12 as stated: for every viewport size an item is drawn in a world copy
\* exactly if its bounding box on screen meets the expanded viewport
C12_DrawnIffOnScreen ==
    \A t \in TileOffsets :
        LET seq == visibleIn(t)
        IN  \A k \in 1..Len(renderItems) : DrawnIn(seq, k) <=> OnScreen(k, t)

\* C12: in a viewport with a width and a height an item is drawn in a world
\* copy exactly if its bounding box on screen meets the expanded viewport;
\* in a viewport without width or height nothing is drawn
C12_DrawnIffOnScreenOfSizedViewport ==
    \A t \in TileOffsets :
        LET seq == visibleIn(t)
        IN  \A k \in 1..Len(renderItems) :
                DrawnIn(seq, k)
                    <=> (viewportSize.w # 0 /\ viewportSize.h # 0 /\ OnScreen(k, t))

\* an item is drawn in one world copy and left out of another, and an item
\* that is not wholly inside the expanded viewport is drawn
C12_PartlyOnScreen ==
    /\ viewportSize.w # 0
    /\ viewportSize.h # 0
    /\ \E k \in 1..Len(renderItems), t \in TileOffsets, u \in TileOffsets :
          /\ Drawn(k, t)
          /\ ~Drawn(k, u)
          /\ ScreenBox(renderItems[k], t).x < ExpandedViewport.x


\* the world copy t on screen
CopyBox(t) ==
    Rect(worldTransform.x + t[1] * Tile, worldTransform.y + t[2] * Tile, Tile, Tile)

\* the pixel (px, py) of the viewport lies in one of the nine copies
Covered(px, py) ==
    \E t \in TileOffsets :
        /\ CopyBox(t).x <= px * PxUnits
        /\ px * PxUnits < CopyBox(t).x + Tile
        /\ CopyBox(t).y <= py * PxUnits
        /\ py * PxUnits < CopyBox(t).y + Tile

\* C13: once the world is laid out, every point of the viewport lies in one
\* of the nine world copies (the copies form one square: the corners decide)
C13_ViewportCovered ==
    (mounted /\ viewportSize.w > 0 /\ viewportSize.h > 0)
        => \A px \in {0, viewportSize.w - 1}, py \in {0, viewportSize.h - 1} : Covered(px, py)


\* a step of onPointerDown: a pointer becomes the active one
PointerGoesDown == activePointerId' # NoPointer /\ activePointerId' # activePointerId

\* C14: a pointer-down that arrives while a recenter animation is in flight
\* cancels it: the tick that follows leaves targetOffset to the drag
C14_PointerDownCancelsAnimation ==
    [][(animating /\ PointerGoesDown)
          => (centerAnim' = NoAnim /\ tickTarget(FrameGap)' = targetOffset')]_vars

\* a step of tick: the frame time is taken anew
Ticks == sinceRaf' = 0

animStart(anim) == Point(anim.startX, anim.startY)

animEnd(anim) == Point(anim.endX, anim.endY)

\* C15: a recenter request always leaves exactly the animation it asked for,
\* begun at the wrapped current offset of the moment of the request, also when
\* one was in flight; an animation in flight is the one requested last, and
\* none comes into being but by a request, so none follows a completion
C15_RequestsReplace ==
    /\ [][scrollToCenter
            => /\ animating'
               /\ centerAnim'.elapsed = 0
               /\ animStart(centerAnim') = wrapPoint(currentOffset, Tile)]_vars
    /\ [][(animating' /\ ~scrollToCenter)
            => /\ animating
               /\ animStart(centerAnim') = animStart(centerAnim)
               /\ animEnd(centerAnim') = animEnd(centerAnim)
               /\ centerAnim'.elapsed >= centerAnim.elapsed]_vars

\* a second request has replaced the animation of the first: since the only
\* pointer-move the drag has had, there were one frame (which showed the
\* button) and two inputs, neither of them a pointer event
C15_Replaced ==
    /\ animating
    /\ centerAnim.elapsed = 0
    /\ isDragging
    /\ movedDistance > 0
    /\ sincePointer = FrameGap + 2 * InputGap

\* the states of the controller
Recentering == animating

Dragging == ~animating /\ isDragging

Inertial == ~animating /\ ~isDragging /\ isInertia

Idle == ~animating /\ ~isDragging /\ ~isInertia

\* C16: a recenter request zeroes velocity and inertia at once; the animation
\* is over at the first tick 650 ms or more after its start and at no other
\* step, with target and current at the end value, the record cleared,
\* velocity zero, and Idle when no pointer is down; and with ticks running
\* every animation gets there
C16_RecenterCompletes ==
    /\ [][scrollToCenter => (velocity' = Zero /\ ~isInertia')]_vars
    /\ [][(animating /\ Tick) => (animating' <=> centerAnim.elapsed + FrameGap < duration)]_vars
    /\ [][(animating /\ LateTick)
            => (animating' <=> centerAnim.elapsed + LongFrameGap < duration)]_vars
    /\ [][(animating /\ ~animating')
            => /\ Ticks
               /\ targetOffset' = animEnd(centerAnim)
               /\ currentOffset' = animEnd(centerAnim)
               /\ velocity' = Zero
               /\ (~isDragging' => Idle')]_vars
    /\ (animating ~> ~animating)

\* a drag carried the camera more than 240 px from the centre, and a recenter
\* animation has come to its end there, with no pointer down
C16_Recentered ==
    /\ movedDistance > showDistance * PxUnits
    /\ Idle
    /\ targetOffset = currentOffset
    /\ wrapPoint(currentOffset, Tile) = desiredOffset
    /\ velocity = Zero

\* the drag of the scenario: one pointer-move by (40, 0), and no recenter
\* animation in flight
DragOf40 == movedDistance = 40 * PxUnits /\ ~animating

\* C17: the drag of 40 px released with velocity (0.5, 0) leaves the controller
\* Inertial; every tick of that glide moves targetOffset.x up and leaves the
\* controller Inertial while the speed is twice the stop threshold or more,
\* and zeroes velocity when it ends the glide; after that no tick moves
\* targetOffset
C17_GlideAfterRelease ==
    /\ [][(DragOf40 /\ isDragging /\ velocity = Point(VelUnits \div 2, 0) /\ PointerUp)
            => Inertial']_vars
    /\ [][(DragOf40 /\ Inertial /\ Ticks)
            => /\ targetOffset'.x > targetOffset.x
               /\ targetOffset'.y = targetOffset.y
               /\ (velocity.x >= 2 * stopSpeed => Inertial')
               /\ (Inertial' \/ (Idle' /\ velocity' = Zero))]_vars
    /\ [][(DragOf40 /\ Idle /\ Ticks) => targetOffset' = targetOffset]_vars

\* the glide of the scenario under way: frames have carried targetOffset beyond
\* the 40 px of the drag, at a speed above 0.25 px/ms, which only the release
\* at (0.5, 0) leaves (a pointer-move that comes a frame later gives 0.24)
C17_Gliding ==
    /\ DragOf40
    /\ Inertial
    /\ 4 * velocity.x > VelUnits
    /\ velocity.y = 0
    /\ targetOffset.x > desiredOffset.x + movedDistance
    /\ targetOffset.y = desiredOffset.y

\* a step of onPointerUp for the active pointer
Releases == isDragging /\ PointerUp /\ ~isDragging'

\* the drag went beyond 10 px and its smoothed speed is above 0.04 px/ms
RealDrag ==
    /\ movedDistance > 10 * PxUnits
    /\ velocity.x * velocity.x + velocity.y * velocity.y > minInertiaSpeed * minInertiaSpeed

\* a step of onPointerUp for a pointer that is not the active one
StrayPointerUp == \E id \in PointerIds : id # activePointerId /\ onPointerUp(id)

\* C18 as stated: the release of the active pointer leaves the controller
\* Inertial if the drag was a real one, and otherwise Idle with a targetOffset
\* that the next tick leaves alone; the pointer-up of another pointer changes
\* nothing
C18_ReleaseDecides ==
    /\ [][Releases
            => IF RealDrag THEN Inertial'
               ELSE Idle' /\ tickTarget(FrameGap)' = targetOffset']_vars
    /\ [][StrayPointerUp => UNCHANGED vars]_vars

\* C18: the same for a release while no recenter animation is in flight; a
\* release during an animation leaves the animation running
C18_ReleaseDecidesUnlessRecentering ==
    /\ [][(Releases /\ ~animating)
            => IF RealDrag THEN Inertial'
               ELSE Idle' /\ tickTarget(FrameGap)' = targetOffset']_vars
    /\ [][(Releases /\ animating) => Recentering']_vars
    /\ [][StrayPointerUp => UNCHANGED vars]_vars

\* a drag of 11 px at 0.0396 px/ms has just been released: long enough, too
\* slow, and the controller is Idle
C18_ReleasedSlow ==
    /\ activePointerId = NoPointer
    /\ movedDistance = 11 * PxUnits
    /\ velocity # Zero
    /\ suppressLeft = suppressWindow
    /\ Idle

\* the square of the speed hypot(v.x, v.y)
speedSquared(v) == v.x * v.x + v.y * v.y

\* no tick of a glide raises the speed
GlideSlowsDown ==
    [][(Inertial /\ Ticks)
         => /\ speedSquared(velocity') <= speedSquared(velocity)
            /\ Abs(velocity'.x) <= Abs(velocity.x)
            /\ Abs(velocity'.y) <= Abs(velocity.y)]_vars

NoMoreInput == inputsLeft = 0 \/ framesSinceInput > MaxQuiet

\* C20: an Inertial controller that gets no more input is eventually Idle with
\* velocity exactly (0, 0)
C20_GlideSettles == (Inertial /\ NoMoreInput) ~> (Idle /\ velocity = Zero)

\* a glide has settled: after the drag of 40 px the frames carried the target
\* on, by less than a second drag could have, and the controller is at rest
C20_Settled ==
    /\ DragOf40
    /\ NoMoreInput
    /\ Idle
    /\ velocity = Zero
    /\ targetOffset.x > desiredOffset.x + movedDistance
    /\ targetOffset.x < desiredOffset.x + 3 * movedDistance
    /\ targetOffset.y = desiredOffset.y

\* C21: a pointer-cancel leaves the controller not dragging, without an active
\* pointer and without a glide, whatever the state it arrives in
C21_CancelLeavesIdle ==
    [][PointerCancel
         => (~isDragging' /\ activePointerId' = NoPointer /\ ~isInertia')]_vars

\* C22: a drag whose pointer has lost its capture, and for which no pointer-up
\* and no pointer-cancel is delivered, ends all the same: the controller gets
\* to be not dragging, with no active pointer
C22_LostCaptureEndsDrag ==
    (isDragging /\ ~hasCapture /\ NoMoreInput)
        ~> (~isDragging /\ activePointerId = NoPointer)

\* C23: no two items of the list have the same id
C23_UniqueIds ==
    \A a \in Items : \A b \in Items : a # b => list[a].id # list[b].id

\* C24: in a world of size 0 or less the solver returns no items
C24_NoItemsWithoutWorld == (WORLD_SIZE <= 0 /\ pc = "done") => list = <<>>

\* a gesture of more than 6 px has ended, and the click that comes now comes
\* less than 140 ms after the last pointer-move of that gesture, so less than
\* 140 ms after its pointer-up
ClickFollowsDrag ==
    /\ ~isDragging
    /\ movedDistance > 6 * PxUnits
    /\ sincePointer + InputGap < 140 * MsUnits

\* C25: a click less than 140 ms after the pointer-up of a gesture of more
\* than 6 px leaves the selected item as it is, so a click changes it outside
\* that window only; a placeholder is never the selected item; closing the
\* modal leaves none selected
C25_ClickSuppressedAfterDrag ==
    /\ [][(Click /\ ClickFollowsDrag) => selected' = selected]_vars
    /\ [](selected # 0 => ~isPlaceholder(renderItems[selected]))
    /\ [][(Click /\ Len(list) = 0) => selected' = selected]_vars
    /\ [][onClose => selected' = 0]_vars

\* an item was opened by a click that came after a drag of more than 6 px, 140
\* ms or more after its last pointer-move
C25_OpenedAfterDrag ==
    /\ selected # 0
    /\ ~isDragging
    /\ movedDistance > 6 * PxUnits
    /\ sincePointer >= 140 * MsUnits

\* the world coordinate under the middle of a viewport side of win pixels, in
\* hundredths, when the world is drawn at the offset display
UnderCenter(win, display) ==
    (RoundDiv((win * (PxUnits \div 2) - display) * 100, worldScale)) % (WORLD_SIZE * PxUnits)

\* the shortest way round the torus from there to the middle of the world, on
\* screen, in quarters of a pixel
TorusDistance(win, display) ==
    LET straight == Abs(UnderCenter(win, display) - (WORLD_SIZE \div 2) * PxUnits)
        around == WORLD_SIZE * PxUnits - straight
    IN  RoundDiv(RoundDiv(MathMin(straight, around), 25) * worldScale, 100)

FarFromCenter ==
    TorusDistance(windowSize.w, worldTransform.x) * TorusDistance(windowSize.w, worldTransform.x)
      + TorusDistance(windowSize.h, worldTransform.y) * TorusDistance(windowSize.h, worldTransform.y)
        > (240 * 4) * (240 * 4)

\* C26: after every tick the flag of the recenter button is set exactly when
\* the world point under the middle of the viewport is more than 240 screen
\* pixels from the middle of the world, the shortest way round the torus
C26_ButtonShowsDistance == [][Ticks => (showCenterButton' <=> FarFromCenter')]_vars

\* a tick has found the camera more than 240 px from the centre and set the flag
C26_ShownFarAway == sinceRaf = 0 /\ showCenterButton /\ FarFromCenter

\* C27: after every placement step the partner table agrees with the
\* geometry: it has one entry per placed item, the links are mutual, no item
\* is its own partner, and two items are partners exactly when their tiles
\* intersect with positive area
C27_PartnersAreOverlaps ==
    /\ Len(partner) = Len(list)
    /\ \A a \in Items :
          /\ partner[a] # a
          /\ partner[a] \in Items \cup {0}
    /\ \A a \in Items : \A b \in Items :
          /\ partner[a] = b <=> partner[b] = a
          /\ a # b => (partner[a] = b <=> Meets(TileOf(a), TileOf(b)))

\* a fourth item has been placed, after candidates that were rejected, and
\* the table has its entry
C27_FourLinked ==
    /\ pc = "item"
    /\ Len(list) >= 4
    /\ placement.found
    /\ placement.attempts > 1
    /\ partner[Len(list)] = placement.overlapIndex

\* the tile tried fits the world after the margins
TileFits ==
    /\ tileW <= WORLD_SIZE - 640
    /\ tileH + 32 <= WORLD_SIZE - 640

\* the footprint of the tile at position c stays inside the margins
InsideMargins(c) ==
    /\ 320 <= c.x
    /\ c.x + tileW <= WORLD_SIZE - 320
    /\ 320 <= c.y
    /\ c.y + tileH + 32 <= WORLD_SIZE - 320

\* C28: when the tile tried fits the world after the margins, every position
\* the ring sampler or the uniform sampler produces keeps the whole footprint
\* (tile, gap and caption) inside [320, WORLD_SIZE - 320] on both axes
C28_SamplesInsideMargins ==
    TileFits => \A k \in 1..Len(candidates) : InsideMargins(candidates[k])

\* a position was sampled that puts a fitting tile against the far margin on
\* one axis and against the near margin on the other
C28_AgainstTheMargins ==
    /\ TileFits
    /\ \E k \in 1..Len(candidates) :
          /\ candidates[k].x + tileW = WORLD_SIZE - 320
          /\ candidates[k].y = 320

\* p and q differ by a whole number of periods on both axes
Congruent(p, q, period) ==
    /\ (p.x - q.x) % period = 0
    /\ (p.y - q.y) % period = 0

\* C29: the end offset of a recenter is congruent modulo the tile period to
\* the centred offset; when the animation is over the wrapped camera offset,
\* and the offset drawn, equal the centred offset on both axes, and the flag
\* of the recenter button is false at that tick (viewport size and scale do
\* not change while an animation is in flight here)
C29_RecenterEndsCentred ==
    /\ [][scrollToCenter => Congruent(animEnd(centerAnim'), desiredOffset, Tile)]_vars
    /\ [][(animating /\ ~animating')
            => /\ wrapPoint(currentOffset', Tile') = desiredOffset'
               /\ worldTransform' = desiredOffset'
               /\ ~showCenterButton']_vars

\* the tick that ended a recenter animation has just run: the camera is back
\* at the centre after a drag that had carried it more than 240 px away
C29_BackAtCentre ==
    /\ sinceRaf = 0
    /\ ~animating
    /\ movedDistance > 240 * PxUnits
    /\ worldTransform = desiredOffset
    /\ ~showCenterButton

\* what is still to be followed: target minus current
Pending == Point(targetOffset.x - currentOffset.x, targetOffset.y - currentOffset.y)

\* C30: a resize that re-wraps the camera leaves the displayed position (the
\* wrapped current offset) as it was, and the difference of target and current
\* offset is the same after it as before on both axes
C30_ResizeKeepsPending ==
    [][onResize => /\ wrapPoint(currentOffset', Tile') = wrapPoint(currentOffset, Tile)
                   /\ Pending' = Pending]_vars

=============================================================================
